---- MODULE Spec2Model ----
(***************************************************************************)
(* SimpleTune guitar tuner (src/app.js): the listening session, the tick   *)
(* loop driven by requestAnimationFrame, the autocorrelation pitch         *)
(* estimator, the smoothing state and the display.                         *)
(*                                                                         *)
(* Numbers.  JavaScript numbers are modelled as exact rationals <<n, d>>   *)
(* with d > 0 in lowest terms.  null is NULL (the empty tuple) for values  *)
(* that are rationals or objects, NULL_ID for the animation frame handle   *)
(* and NULL_INDEX for the locked string index.  Audio samples are integers *)
(* in units of 1/SAMPLE_UNIT.  The status line and the label of the start  *)
(* button are not modelled.                                                *)
(***************************************************************************)
EXTENDS Integers, Sequences, FiniteSets, TLC

VARIABLES
    audioContext,       \* NULL or <<sampleRate>>                 (app.js:29)
    analyser,           \* NULL or <<fftSize>>                    (app.js:30)
    mediaStream,        \* NULL or <<"live">>                    (app.js:31)
    isListening,        \*                                        (app.js:32)
    animationId,        \* NULL_ID or a requestAnimationFrame id  (app.js:33)
    lockedStringIndex,  \* NULL_INDEX or 0..5                     (app.js:34)
    smoothedFrequency,  \* NULL or a rational                     (app.js:35)
    startBtn,           \* TRUE iff the button has class listening
    noteEl,             \* [text, inTune]
    octaveEl,           \* text: <<>> or <<octave>>
    hzValueEl,          \* text: <<"-">> or <<tenths of Hz>>
    centsValueEl,       \* text: <<"0">>, <<"+", c>> or <<"-", c>>
    segments,           \* indices of the meter segments with class active
    stringButtons,      \* index -> set of classes among active, in-tune, locked
    startsAwaiting,     \* startListening calls suspended at await getUserMedia
    frameRequests,      \* ids of the scheduled, not yet run, frame callbacks
    lastOp,             \* the handler that ran last
    lastIndex,          \* the argument of toggleStringLock, when it ran last
    lockedBefore,       \* lockedStringIndex before toggleStringLock, when it ran last
    rmsVsMin,           \* detectPitch's local rms: -1, 0, 1 as rms <, =, > MIN_VOLUME
    frequency,          \* detectPitch's local frequency (NULL: not computed)
    updateDisplayArg,   \* the argument of updateDisplay in the last step (NULL: not called)
    sinceReset,         \* valid estimates consumed since smoothing was last reset
    acBuffer,           \* the estimator on its own: the window,
    acSampleRate,       \*   the sampling rate,
    acResult            \*   and autoCorrelate's result (NULL: not yet called)

vars == <<audioContext, analyser, mediaStream, isListening, animationId,
          lockedStringIndex, smoothedFrequency, startBtn, noteEl,
          octaveEl, hzValueEl, centsValueEl, segments, stringButtons,
          startsAwaiting, frameRequests, lastOp, lastIndex, lockedBefore,
          rmsVsMin,
          frequency, updateDisplayArg, sinceReset,
          acBuffer, acSampleRate, acResult>>

sessionVars == <<audioContext, analyser, mediaStream, isListening, animationId,
          lockedStringIndex, smoothedFrequency, startBtn, noteEl,
          octaveEl, hzValueEl, centsValueEl, segments, stringButtons,
          startsAwaiting, frameRequests, lastOp, lastIndex, lockedBefore,
          rmsVsMin,
          frequency, updateDisplayArg, sinceReset>>

acVars == <<acBuffer, acSampleRate, acResult>>

----------------------------------------------------------------------------
(* Bounds of the model. *)

\* Length of the analyser's window (4096 in the program).
FftSize == 6
\* Longest window given to the estimator on its own.
MaxLen == 6
\* startListening calls that may be awaiting the microphone at once.
MaxStarts == 2
\* Frame callbacks that may be scheduled at once.
MaxFrames == 2
\* Valid estimates the smoothing state takes in between two resets.
MaxEstimates == 2

\* Sample values, in units of 1/SAMPLE_UNIT.
Samples == {-2, 0, 1, 3}
SAMPLE_UNIT == 200
\* Sampling rates of the audio context.
SampleRates == {400}
\* The string buttons that are clicked.
Clicked == {0, 3}
\* Sampling rates given to the estimator on its own.
AcSampleRates == {200, 400, 800}
\* Longer windows, over two sample values, given to the estimator on its own:
\* long enough for maxPeriod, not half the window, to end the scan.
LongLen == 12
LongSamples == {-1, 1}

----------------------------------------------------------------------------
(* null *)

NULL == <<>>
NULL_ID == 0
NULL_INDEX == -1

----------------------------------------------------------------------------
(* Program constants, app.js:5-26. *)

GUITAR_STRINGS ==
    [i \in 0..5 |->
        CASE i = 0 -> [note |-> "E", octave |-> 2, freq |-> <<8241, 100>>]
          [] i = 1 -> [note |-> "A", octave |-> 2, freq |-> <<110, 1>>]
          [] i = 2 -> [note |-> "D", octave |-> 3, freq |-> <<14683, 100>>]
          [] i = 3 -> [note |-> "G", octave |-> 3, freq |-> <<196, 1>>]
          [] i = 4 -> [note |-> "B", octave |-> 3, freq |-> <<12347, 50>>]
          [] i = 5 -> [note |-> "E", octave |-> 4, freq |-> <<32963, 100>>]]

NOTE_NAMES == <<"C", "C#", "D", "D#", "E", "F", "F#", "G", "G#", "A", "A#", "B">>

A4_FREQ == 440
A4_MIDI == 69
IN_TUNE_CENTS == 5
\* MIN_VOLUME = 0.01 and EMA_ALPHA = 0.2 as rationals.
MIN_VOLUME == <<1, 100>>
\* The weights of the new and the previous value exchanged.
EMA_ALPHA_SWAPPED == <<4, 5>>
EMA_ALPHA == <<1, 5>>
\* The sentinel autoCorrelate returns when it finds no pitch.
NOT_FOUND == <<-1, 1>>

----------------------------------------------------------------------------
(* Rational arithmetic. *)

Abs(x) == IF x < 0 THEN -x ELSE x
Min(a, b) == IF a < b THEN a ELSE b
Max(a, b) == IF a > b THEN a ELSE b

RECURSIVE Gcd(_, _)
Gcd(a, b) == IF b = 0 THEN a ELSE Gcd(b, a % b)

\* n/d in lowest terms, d > 0.
Rat(n, d) ==
    LET g == Gcd(Abs(n), Abs(d))
        s == IF d < 0 THEN -1 ELSE 1
    IN <<(s * n) \div g, (s * d) \div g>>

RatAdd(a, b) == Rat(a[1] * b[2] + b[1] * a[2], a[2] * b[2])
RatMul(a, b) == Rat(a[1] * b[1], a[2] * b[2])
RatSub(a, b) == Rat(a[1] * b[2] - b[1] * a[2], a[2] * b[2])
RatLess(a, b) == a[1] * b[2] < b[1] * a[2]
RatLeq(a, b) == a[1] * b[2] <= b[1] * a[2]
RatPositive(a) == a[1] > 0

----------------------------------------------------------------------------
(* autoCorrelate, app.js:281-326.                                          *)
(* A correlation sum / sqrt(sumSq1 * sumSq2) is kept as the pair           *)
(* [num |-> sum, normSq |-> sumSq1 * sumSq2] and compared exactly.         *)

\* buffer[i] with JavaScript's index from 0.
At(buffer, i) == buffer[i + 1]

\* The constant -1 that bestCorrelation starts from (app.js:285).
MINUS_ONE == [num |-> -1, normSq |-> 1]

\* a > b for two correlations.
CorrGreater(a, b) ==
    CASE a.num >= 0 /\ b.num < 0 -> TRUE
      [] a.num < 0 /\ b.num >= 0 -> FALSE
      [] a.num >= 0 /\ b.num >= 0 ->
            a.num * a.num * b.normSq > b.num * b.num * a.normSq
      [] OTHER ->
            a.num * a.num * b.normSq < b.num * b.num * a.normSq

\* c > 0.2 for a correlation c (app.js:321).
AboveThreshold(c) == c.num > 0 /\ 25 * c.num * c.num > c.normSq

\* app.js:283, 289, 290
MAX_SAMPLES(buffer) == Len(buffer) \div 2
minPeriod(sampleRate) == sampleRate \div 400
maxPeriod(sampleRate) == sampleRate \div 80

\* The inner loop, app.js:294-305: the three sums for one offset.
Sums(buffer, offset) ==
    LET n == Max(0, MAX_SAMPLES(buffer) - offset)
        sum[k \in 0..n] ==
            IF k = 0 THEN 0
            ELSE sum[k - 1] + At(buffer, k - 1) * At(buffer, k - 1 + offset)
        sumSq1[k \in 0..n] ==
            IF k = 0 THEN 0
            ELSE sumSq1[k - 1] + At(buffer, k - 1) * At(buffer, k - 1)
        sumSq2[k \in 0..n] ==
            IF k = 0 THEN 0
            ELSE sumSq2[k - 1]
                   + At(buffer, k - 1 + offset) * At(buffer, k - 1 + offset)
    IN [sum |-> sum[n], sumSq1 |-> sumSq1[n], sumSq2 |-> sumSq2[n]]

\* The correlation of one offset; defined when its normSq is positive.
Correlation(buffer, offset) ==
    LET s == Sums(buffer, offset)
    IN [num |-> s.sum, normSq |-> s.sumSq1 * s.sumSq2]

\* >= in place of >: the last of the lags with the greatest correlation.
ScanStepLastMaximum(buffer, offset, best) ==
    LET c == Correlation(buffer, offset)
    IN IF c.normSq > 0 /\ ~CorrGreater(best.bestCorrelation, c)
       THEN [bestOffset |-> offset, bestCorrelation |-> c]
       ELSE best

\* One iteration of the outer loop's body, app.js:307-317.
ScanStep(buffer, offset, best) ==
    LET c == Correlation(buffer, offset)
    IN IF c.normSq > 0 /\ CorrGreater(c, best.bestCorrelation)
       THEN [bestOffset |-> offset, bestCorrelation |-> c]
       ELSE best

\* offset <= ... in place of offset < ...
ScanEndInclusive(buffer, sampleRate) ==
    Min(MAX_SAMPLES(buffer), maxPeriod(sampleRate)) + 1

\* The end of the scan, app.js:293.
ScanEnd(buffer, sampleRate) == Min(MAX_SAMPLES(buffer), maxPeriod(sampleRate))

\* The outer loop, app.js:293-318, from offset on.
RECURSIVE Scan(_, _, _, _)
Scan(buffer, sampleRate, offset, best) ==
    IF offset < ScanEnd(buffer, sampleRate)
    THEN Scan(buffer, sampleRate, offset + 1, ScanStep(buffer, offset, best))
    ELSE best

\* The threshold 0.2 left out: any positive correlation is accepted.
AcceptedAnyPositive(best) ==
    best.bestCorrelation.num > 0 /\ best.bestOffset > 0

\* The acceptance test, app.js:321.
Accepted(best) == AboveThreshold(best.bestCorrelation) /\ best.bestOffset > 0

\* sampleRate / bestOffset, app.js:322; <<1, 0>> is Infinity.
Quotient(sampleRate, bestOffset) ==
    IF bestOffset = 0 THEN <<1, 0>> ELSE Rat(sampleRate, bestOffset)

BestOf(buffer, sampleRate) ==
    Scan(buffer, sampleRate, minPeriod(sampleRate),
         [bestOffset |-> -1, bestCorrelation |-> MINUS_ONE])

autoCorrelate(buffer, sampleRate) ==
    LET best == BestOf(buffer, sampleRate)
    IN IF Accepted(best)
       THEN Quotient(sampleRate, best.bestOffset)
       ELSE NOT_FOUND

----------------------------------------------------------------------------
(* The estimator on its own: autoCorrelate applied to every window of the  *)
(* bounded sets.                                                           *)

AcWindows ==
    UNION {[1..n -> Samples] : n \in 0..MaxLen} \cup [1..LongLen -> LongSamples]

AcInit ==
    /\ acBuffer \in AcWindows
    /\ acSampleRate \in AcSampleRates
    /\ acResult = NULL

CallAutoCorrelate ==
    /\ acResult = NULL
    /\ acResult' = autoCorrelate(acBuffer, acSampleRate)
    /\ UNCHANGED <<acBuffer, acSampleRate>>

----------------------------------------------------------------------------
(* Math.log2 and Math.round, as updateDisplay, getNoteFromFrequency and    *)
(* updateStringIndicators use them (app.js:336, 414-418, 455-456).         *)
(* A positive rational a is written 2^e * m with 1 <= m < 2, and m is      *)
(* compared, to six decimal places, with tabulated powers of two.          *)

\* One, as a fixed-point number.
FIXED_ONE == 1000000

RECURSIVE Digits(_, _, _, _)
Digits(rem, q, k, acc) ==
    IF k = 0 THEN acc
    ELSE Digits((rem * 10) % q, q, k - 1, acc * 10 + (rem * 10) \div q)

\* floor(a * FIXED_ONE) for a rational a >= 0.
Scaled(a) == (a[1] \div a[2]) * FIXED_ONE + Digits(a[1] % a[2], a[2], 6, 0)

\* e with 2^e <= a < 2^(e+1), for a rational a > 0.
RECURSIVE Exponent(_)
Exponent(a) ==
    IF a[1] >= 2 * a[2] THEN Exponent(Rat(a[1], 2 * a[2])) + 1
    ELSE IF a[1] < a[2] THEN Exponent(Rat(2 * a[1], a[2])) - 1
    ELSE 0

RECURSIVE Pow2(_)
Pow2(e) == IF e = 0 THEN <<1, 1>>
           ELSE IF e > 0 THEN RatMul(<<2, 1>>, Pow2(e - 1))
           ELSE RatMul(<<1, 2>>, Pow2(e + 1))

\* a / 2^Exponent(a), in [1, 2).
Mantissa(a) == RatMul(a, Pow2(-Exponent(a)))

\* HALF_CENT[j] = ceiling(2^((2j-1)/2400) * FIXED_ONE), j in 1..1200: the
\* ratios at which round(1200 * log2) steps from j-1 to j.
HALF_CENT ==
  <<
    1000289, 1000867, 1001446, 1002024, 1002603, 1003182, 1003762, 1004342, 1004922, 1005503,
    1006084, 1006665, 1007247, 1007829, 1008411, 1008994, 1009577, 1010160, 1010744, 1011328,
    1011912, 1012497, 1013082, 1013667, 1014253, 1014839, 1015425, 1016012, 1016599, 1017186,
    1017774, 1018362, 1018951, 1019539, 1020128, 1020718, 1021308, 1021898, 1022488, 1023079,
    1023670, 1024261, 1024853, 1025445, 1026038, 1026631, 1027224, 1027817, 1028411, 1029006,
    1029600, 1030195, 1030790, 1031386, 1031982, 1032578, 1033175, 1033772, 1034369, 1034966,
    1035564, 1036163, 1036761, 1037361, 1037960, 1038560, 1039160, 1039760, 1040361, 1040962,
    1041563, 1042165, 1042767, 1043370, 1043973, 1044576, 1045179, 1045783, 1046388, 1046992,
    1047597, 1048202, 1048808, 1049414, 1050020, 1050627, 1051234, 1051842, 1052449, 1053057,
    1053666, 1054275, 1054884, 1055493, 1056103, 1056713, 1057324, 1057935, 1058546, 1059158,
    1059770, 1060382, 1060995, 1061608, 1062221, 1062835, 1063449, 1064063, 1064678, 1065293,
    1065909, 1066525, 1067141, 1067757, 1068374, 1068992, 1069609, 1070227, 1070846, 1071464,
    1072084, 1072703, 1073323, 1073943, 1074563, 1075184, 1075806, 1076427, 1077049, 1077671,
    1078294, 1078917, 1079540, 1080164, 1080788, 1081413, 1082038, 1082663, 1083288, 1083914,
    1084541, 1085167, 1085794, 1086422, 1087049, 1087677, 1088306, 1088935, 1089564, 1090193,
    1090823, 1091453, 1092084, 1092715, 1093346, 1093978, 1094610, 1095243, 1095876, 1096509,
    1097142, 1097776, 1098411, 1099045, 1099680, 1100316, 1100951, 1101587, 1102224, 1102861,
    1103498, 1104136, 1104774, 1105412, 1106051, 1106690, 1107329, 1107969, 1108609, 1109250,
    1109890, 1110532, 1111173, 1111815, 1112458, 1113101, 1113744, 1114387, 1115031, 1115675,
    1116320, 1116965, 1117610, 1118256, 1118902, 1119549, 1120196, 1120843, 1121490, 1122138,
    1122787, 1123436, 1124085, 1124734, 1125384, 1126034, 1126685, 1127336, 1127987, 1128639,
    1129291, 1129944, 1130596, 1131250, 1131903, 1132557, 1133212, 1133866, 1134522, 1135177,
    1135833, 1136489, 1137146, 1137803, 1138460, 1139118, 1139776, 1140435, 1141094, 1141753,
    1142413, 1143073, 1143733, 1144394, 1145055, 1145717, 1146379, 1147041, 1147704, 1148367,
    1149031, 1149695, 1150359, 1151024, 1151689, 1152354, 1153020, 1153686, 1154353, 1155020,
    1155687, 1156355, 1157023, 1157691, 1158360, 1159030, 1159699, 1160369, 1161040, 1161711,
    1162382, 1163053, 1163725, 1164398, 1165071, 1165744, 1166417, 1167091, 1167766, 1168440,
    1169115, 1169791, 1170467, 1171143, 1171820, 1172497, 1173174, 1173852, 1174530, 1175209,
    1175888, 1176567, 1177247, 1177927, 1178608, 1179289, 1179970, 1180652, 1181334, 1182017,
    1182700, 1183383, 1184067, 1184751, 1185436, 1186121, 1186806, 1187492, 1188178, 1188864,
    1189551, 1190238, 1190926, 1191614, 1192303, 1192992, 1193681, 1194371, 1195061, 1195751,
    1196442, 1197133, 1197825, 1198517, 1199210, 1199903, 1200596, 1201290, 1201984, 1202678,
    1203373, 1204068, 1204764, 1205460, 1206157, 1206854, 1207551, 1208249, 1208947, 1209645,
    1210344, 1211043, 1211743, 1212443, 1213144, 1213845, 1214546, 1215248, 1215950, 1216653,
    1217356, 1218059, 1218763, 1219467, 1220171, 1220876, 1221582, 1222288, 1222994, 1223701,
    1224408, 1225115, 1225823, 1226531, 1227240, 1227949, 1228658, 1229368, 1230079, 1230789,
    1231501, 1232212, 1232924, 1233636, 1234349, 1235062, 1235776, 1236490, 1237204, 1237919,
    1238635, 1239350, 1240066, 1240783, 1241500, 1242217, 1242935, 1243653, 1244371, 1245090,
    1245810, 1246530, 1247250, 1247971, 1248692, 1249413, 1250135, 1250857, 1251580, 1252303,
    1253027, 1253751, 1254475, 1255200, 1255925, 1256651, 1257377, 1258103, 1258830, 1259558,
    1260285, 1261014, 1261742, 1262471, 1263201, 1263931, 1264661, 1265392, 1266123, 1266854,
    1267586, 1268319, 1269051, 1269785, 1270518, 1271252, 1271987, 1272722, 1273457, 1274193,
    1274929, 1275666, 1276403, 1277140, 1277878, 1278617, 1279356, 1280095, 1280834, 1281574,
    1282315, 1283056, 1283797, 1284539, 1285281, 1286024, 1286767, 1287510, 1288254, 1288998,
    1289743, 1290488, 1291234, 1291980, 1292727, 1293474, 1294221, 1294969, 1295717, 1296466,
    1297215, 1297964, 1298714, 1299465, 1300215, 1300967, 1301718, 1302470, 1303223, 1303976,
    1304729, 1305483, 1306237, 1306992, 1307747, 1308503, 1309259, 1310016, 1310772, 1311530,
    1312288, 1313046, 1313804, 1314564, 1315323, 1316083, 1316843, 1317604, 1318366, 1319127,
    1319890, 1320652, 1321415, 1322179, 1322943, 1323707, 1324472, 1325237, 1326003, 1326769,
    1327536, 1328303, 1329070, 1329838, 1330606, 1331375, 1332144, 1332914, 1333684, 1334455,
    1335226, 1335997, 1336769, 1337542, 1338315, 1339088, 1339861, 1340636, 1341410, 1342185,
    1342961, 1343737, 1344513, 1345290, 1346067, 1346845, 1347623, 1348402, 1349181, 1349961,
    1350740, 1351521, 1352302, 1353083, 1353865, 1354647, 1355430, 1356213, 1356997, 1357781,
    1358565, 1359350, 1360136, 1360922, 1361708, 1362495, 1363282, 1364070, 1364858, 1365646,
    1366435, 1367225, 1368015, 1368805, 1369596, 1370387, 1371179, 1371972, 1372764, 1373557,
    1374351, 1375145, 1375940, 1376735, 1377530, 1378326, 1379122, 1379919, 1380717, 1381514,
    1382313, 1383111, 1383910, 1384710, 1385510, 1386311, 1387112, 1387913, 1388715, 1389517,
    1390320, 1391124, 1391927, 1392732, 1393536, 1394341, 1395147, 1395953, 1396760, 1397567,
    1398374, 1399182, 1399991, 1400800, 1401609, 1402419, 1403229, 1404040, 1404851, 1405663,
    1406475, 1407288, 1408101, 1408914, 1409728, 1410543, 1411358, 1412173, 1412989, 1413806,
    1414623, 1415440, 1416258, 1417076, 1417895, 1418714, 1419534, 1420354, 1421175, 1421996,
    1422817, 1423639, 1424462, 1425285, 1426109, 1426933, 1427757, 1428582, 1429407, 1430233,
    1431060, 1431887, 1432714, 1433542, 1434370, 1435199, 1436028, 1436858, 1437688, 1438519,
    1439350, 1440181, 1441013, 1441846, 1442679, 1443513, 1444347, 1445181, 1446016, 1446852,
    1447688, 1448524, 1449361, 1450199, 1451037, 1451875, 1452714, 1453553, 1454393, 1455233,
    1456074, 1456915, 1457757, 1458600, 1459442, 1460286, 1461129, 1461973, 1462818, 1463663,
    1464509, 1465355, 1466202, 1467049, 1467897, 1468745, 1469594, 1470443, 1471292, 1472142,
    1472993, 1473844, 1474696, 1475548, 1476400, 1477253, 1478107, 1478961, 1479815, 1480670,
    1481526, 1482382, 1483238, 1484095, 1484953, 1485811, 1486669, 1487528, 1488388, 1489248,
    1490108, 1490969, 1491831, 1492693, 1493555, 1494418, 1495282, 1496145, 1497010, 1497875,
    1498740, 1499606, 1500473, 1501340, 1502207, 1503075, 1503944, 1504813, 1505682, 1506552,
    1507422, 1508293, 1509165, 1510037, 1510909, 1511782, 1512656, 1513530, 1514404, 1515279,
    1516155, 1517031, 1517907, 1518784, 1519662, 1520540, 1521419, 1522298, 1523177, 1524057,
    1524938, 1525819, 1526701, 1527583, 1528465, 1529348, 1530232, 1531116, 1532001, 1532886,
    1533772, 1534658, 1535545, 1536432, 1537320, 1538208, 1539097, 1539986, 1540876, 1541766,
    1542657, 1543548, 1544440, 1545332, 1546225, 1547119, 1548013, 1548907, 1549802, 1550697,
    1551593, 1552490, 1553387, 1554284, 1555182, 1556081, 1556980, 1557880, 1558780, 1559680,
    1560582, 1561483, 1562385, 1563288, 1564191, 1565095, 1566000, 1566904, 1567810, 1568716,
    1569622, 1570529, 1571436, 1572344, 1573253, 1574162, 1575071, 1575981, 1576892, 1577803,
    1578715, 1579627, 1580540, 1581453, 1582367, 1583281, 1584196, 1585111, 1586027, 1586943,
    1587860, 1588778, 1589696, 1590614, 1591533, 1592453, 1593373, 1594293, 1595215, 1596136,
    1597058, 1597981, 1598905, 1599828, 1600753, 1601678, 1602603, 1603529, 1604456, 1605383,
    1606310, 1607238, 1608167, 1609096, 1610026, 1610956, 1611887, 1612818, 1613750, 1614682,
    1615615, 1616549, 1617483, 1618417, 1619353, 1620288, 1621224, 1622161, 1623098, 1624036,
    1624975, 1625913, 1626853, 1627793, 1628733, 1629674, 1630616, 1631558, 1632501, 1633444,
    1634388, 1635332, 1636277, 1637223, 1638169, 1639115, 1640062, 1641010, 1641958, 1642907,
    1643856, 1644806, 1645756, 1646707, 1647658, 1648610, 1649563, 1650516, 1651470, 1652424,
    1653379, 1654334, 1655290, 1656246, 1657203, 1658161, 1659119, 1660077, 1661036, 1661996,
    1662957, 1663917, 1664879, 1665841, 1666803, 1667766, 1668730, 1669694, 1670659, 1671624,
    1672590, 1673556, 1674523, 1675491, 1676459, 1677428, 1678397, 1679366, 1680337, 1681308,
    1682279, 1683251, 1684224, 1685197, 1686171, 1687145, 1688120, 1689095, 1690071, 1691047,
    1692024, 1693002, 1693980, 1694959, 1695938, 1696918, 1697899, 1698880, 1699861, 1700844,
    1701826, 1702810, 1703793, 1704778, 1705763, 1706748, 1707735, 1708721, 1709709, 1710696,
    1711685, 1712674, 1713663, 1714654, 1715644, 1716636, 1717627, 1718620, 1719613, 1720606,
    1721601, 1722595, 1723591, 1724586, 1725583, 1726580, 1727577, 1728576, 1729574, 1730574,
    1731574, 1732574, 1733575, 1734577, 1735579, 1736582, 1737585, 1738589, 1739594, 1740599,
    1741605, 1742611, 1743618, 1744625, 1745633, 1746642, 1747651, 1748661, 1749671, 1750682,
    1751694, 1752706, 1753718, 1754732, 1755746, 1756760, 1757775, 1758791, 1759807, 1760824,
    1761841, 1762859, 1763878, 1764897, 1765916, 1766937, 1767958, 1768979, 1770001, 1771024,
    1772047, 1773071, 1774096, 1775121, 1776146, 1777173, 1778199, 1779227, 1780255, 1781283,
    1782313, 1783342, 1784373, 1785404, 1786435, 1787468, 1788500, 1789534, 1790568, 1791602,
    1792637, 1793673, 1794710, 1795747, 1796784, 1797822, 1798861, 1799900, 1800940, 1801981,
    1803022, 1804064, 1805106, 1806149, 1807193, 1808237, 1809282, 1810327, 1811373, 1812420,
    1813467, 1814515, 1815563, 1816612, 1817662, 1818712, 1819763, 1820814, 1821866, 1822919,
    1823972, 1825026, 1826081, 1827136, 1828191, 1829248, 1830305, 1831362, 1832420, 1833479,
    1834538, 1835598, 1836659, 1837720, 1838782, 1839844, 1840907, 1841971, 1843035, 1844100,
    1845166, 1846232, 1847299, 1848366, 1849434, 1850502, 1851572, 1852641, 1853712, 1854783,
    1855855, 1856927, 1858000, 1859073, 1860148, 1861222, 1862298, 1863374, 1864450, 1865528,
    1866606, 1867684, 1868763, 1869843, 1870923, 1872004, 1873086, 1874168, 1875251, 1876335,
    1877419, 1878503, 1879589, 1880675, 1881761, 1882849, 1883937, 1885025, 1886114, 1887204,
    1888294, 1889385, 1890477, 1891569, 1892662, 1893756, 1894850, 1895945, 1897040, 1898136,
    1899233, 1900331, 1901429, 1902527, 1903626, 1904726, 1905827, 1906928, 1908030, 1909132,
    1910235, 1911339, 1912443, 1913548, 1914654, 1915760, 1916867, 1917975, 1919083, 1920192,
    1921301, 1922411, 1923522, 1924633, 1925745, 1926858, 1927971, 1929085, 1930200, 1931315,
    1932431, 1933548, 1934665, 1935783, 1936901, 1938020, 1939140, 1940261, 1941382, 1942503,
    1943626, 1944749, 1945872, 1946997, 1948122, 1949247, 1950373, 1951500, 1952628, 1953756,
    1954885, 1956014, 1957145, 1958275, 1959407, 1960539, 1961672, 1962805, 1963939, 1965074,
    1966209, 1967346, 1968482, 1969620, 1970758, 1971896, 1973036, 1974176, 1975316, 1976458,
    1977600, 1978742, 1979886, 1981030, 1982174, 1983319, 1984465, 1985612, 1986759, 1987907,
    1989056, 1990205, 1991355, 1992505, 1993657, 1994809, 1995961, 1997114, 1998268, 1999423
  >>

\* HALF_SEMITONE[k] = ceiling(2^((2k-1)/24) * FIXED_ONE), k in 1..12: the
\* ratios at which round(12 * log2) steps from k-1 to k.
HALF_SEMITONE ==
  <<1029303, 1090508, 1155353, 1224054, 1296840, 1373954, 1455654, 1542211, 1633916, 1731074, 1834009, 1943064>>

\* 2^(100/1200) and 2^(IN_TUNE_CENTS/1200), rounded up, as fixed-point numbers.
SEMITONE_RATIO == 1059464
IN_TUNE_RATIO == 1002893

\* The number of entries of the increasing table that are <= x.
RECURSIVE CountUpTo(_, _, _, _)
CountUpTo(table, x, lo, hi) ==
    \* entries 1..lo are <= x, entries hi+1.. are > x
    IF lo = hi THEN lo
    ELSE LET mid == (lo + hi + 1) \div 2
         IN IF table[mid] <= x
            THEN CountUpTo(table, x, mid, hi)
            ELSE CountUpTo(table, x, lo, mid - 1)

\* Math.round(1200 * Math.log2(a)) for a rational a > 0.
RoundCents(a) ==
    1200 * Exponent(a)
      + CountUpTo(HALF_CENT, Scaled(Mantissa(a)), 0, Len(HALF_CENT))

\* Math.floor taken of the logarithm alone: the semitones of the octave
\* below, not of the nearest note.
RoundSemitonesOctave(a) == 12 * Exponent(a)

\* Math.round(12 * Math.log2(a)) for a rational a > 0.
RoundSemitones(a) ==
    12 * Exponent(a)
      + CountUpTo(HALF_SEMITONE, Scaled(Mantissa(a)), 0, Len(HALF_SEMITONE))

\* Math.abs(1200 * Math.log2(a)) is increasing in max(a, 1/a): the distance
\* of app.js:455-456 is kept as that ratio, as a fixed-point number.
Distance(a) ==
    IF a[1] >= a[2] THEN Scaled(a) ELSE Scaled(<<a[2], a[1]>>)

----------------------------------------------------------------------------
(* The display: getNoteFromFrequency, updateStringIndicators,              *)
(* updateDisplay, resetDisplay (app.js:221-237, 328-477).                  *)

\* The meter's segments, created by initializeMeter (app.js:144-194):
\* 12 flat, the center, 12 sharp.
NUM_SEGMENTS == 25

\* JavaScript's a % b, b > 0: the sign of the dividend.
JsRem(a, b) == IF a >= 0 THEN a % b ELSE -((-a) % b)

\* The octave by truncation (roundedMidi / 12 | 0) in place of Math.floor.
getNoteFromFrequencyTruncates(f) ==
    LET ratio == Rat(f[1], f[2] * A4_FREQ)
        roundedMidi == RoundSemitones(ratio) + A4_MIDI
        cents == RoundCents(ratio) + 100 * A4_MIDI - 100 * roundedMidi
        noteIndex == JsRem(JsRem(roundedMidi, 12) + 12, 12)
        octave == (IF roundedMidi >= 0 THEN roundedMidi \div 12
                   ELSE -((-roundedMidi) \div 12)) - 1
    IN [note |-> NOTE_NAMES[noteIndex + 1], octave |-> octave,
        midi |-> roundedMidi, cents |-> cents, frequency |-> f]

\* app.js:412-431
getNoteFromFrequency(f) ==
    LET ratio == Rat(f[1], f[2] * A4_FREQ)
        roundedMidi == RoundSemitones(ratio) + A4_MIDI
        \* Math.round((midiNote - roundedMidi) * 100)
        cents == RoundCents(ratio) + 100 * A4_MIDI - 100 * roundedMidi
        noteIndex == JsRem(JsRem(roundedMidi, 12) + 12, 12)
        octave == (roundedMidi \div 12) - 1
    IN [note |-> NOTE_NAMES[noteIndex + 1], octave |-> octave,
        midi |-> roundedMidi, cents |-> cents, frequency |-> f]

\* The ratio inverted: lockedString.freq / frequency.
LockedCentsInverted(f, index) ==
    LET target == GUITAR_STRINGS[index].freq
    IN RoundCents(Rat(f[2] * target[1], f[1] * target[2]))

\* Math.round(1200 * Math.log2(frequency / lockedString.freq)), app.js:336
LockedCents(f, index) ==
    LET target == GUITAR_STRINGS[index].freq
    IN RoundCents(Rat(f[1] * target[2], f[2] * target[1]))

\* The cents, note and octave updateDisplay shows, app.js:333-345.
Shown(f, locked) ==
    IF locked # NULL_INDEX
    THEN [cents |-> LockedCents(f, locked),
          note |-> GUITAR_STRINGS[locked].note,
          octave |-> GUITAR_STRINGS[locked].octave]
    ELSE LET noteInfo == getNoteFromFrequency(f)
         IN [cents |-> noteInfo.cents, note |-> noteInfo.note,
             octave |-> noteInfo.octave]

\* < in place of <=.
IsInTuneStrict(cents) == Abs(cents) < IN_TUNE_CENTS

\* app.js:374
IsInTune(cents) == Abs(cents) <= IN_TUNE_CENTS

\* frequency.toFixed(1), app.js:350: the tenths of Hz, rounded.
ToFixed1(f) ==
    LET tenths == (20 * f[1] + f[2]) \div (2 * f[2])
    IN <<tenths \div 10, tenths % 10>>

\* app.js:353
CentsText(cents) == IF cents >= 0 THEN <<"+", cents>> ELSE <<"-", -cents>>

\* app.js:356-366
ClampedSegmentIndex(cents) ==
    LET clampedCents == Max(-50, Min(50, cents))
        \* Math.round((clampedCents + 50) / (100 / (numSegments - 1)))
        segmentIndex ==
            (2 * (clampedCents + 50) * (NUM_SEGMENTS - 1) + 100) \div 200
    IN Max(0, Min(NUM_SEGMENTS - 1, segmentIndex))

\* The center segment lit with the others when not in tune.
LitSegmentsWithCenter(cents) ==
    LET centerIndex == NUM_SEGMENTS \div 2
        index == ClampedSegmentIndex(cents)
    IN IF IsInTune(cents) THEN {centerIndex}
       ELSE IF index < centerIndex THEN index..centerIndex
       ELSE centerIndex..index

\* The segments lit, app.js:368-400.
LitSegments(cents) ==
    LET centerIndex == NUM_SEGMENTS \div 2
        index == ClampedSegmentIndex(cents)
    IN IF IsInTune(cents) THEN {centerIndex}
       ELSE IF index < centerIndex THEN index..(centerIndex - 1)
       ELSE (centerIndex + 1)..index

\* The distance of f to string i, app.js:455-456.
StringDistance(f, i) ==
    LET target == GUITAR_STRINGS[i].freq
    IN Distance(Rat(f[1] * target[2], f[2] * target[1]))

\* The forEach of app.js:453-462 over the strings from i on.
RECURSIVE Closest(_, _, _)
Closest(f, i, best) ==
    IF i > 5 THEN best
    ELSE LET distance == StringDistance(f, i)
         IN IF best.closestString = NULL_INDEX \/ distance < best.minDistance
            THEN Closest(f, i + 1,
                         [closestString |-> i, minDistance |-> distance])
            ELSE Closest(f, i + 1, best)

\* The test minDistance < 100 left out: the closest string is always marked.
updateStringIndicatorsAnyDistance(f, isInTune, locked, buttons) ==
    IF locked # NULL_INDEX
    THEN [i \in 0..5 |->
            (buttons[i] \ {"active", "in-tune"})
              \cup (IF i = locked
                    THEN (IF isInTune THEN {"in-tune"} ELSE {"active"})
                    ELSE {})]
    ELSE LET c == Closest(f, 0, [closestString |-> NULL_INDEX,
                                 minDistance |-> 0])
         IN [i \in 0..5 |->
               (buttons[i] \ {"active", "in-tune"})
                 \cup (IF i = c.closestString
                       THEN (IF isInTune /\ c.minDistance < IN_TUNE_RATIO
                             THEN {"in-tune"} ELSE {"active"})
                       ELSE {})]

\* app.js:433-477: the classes of the string buttons after the call.
updateStringIndicators(f, isInTune, locked, buttons) ==
    IF locked # NULL_INDEX
    THEN [i \in 0..5 |->
            (buttons[i] \ {"active", "in-tune"})
              \cup (IF i = locked
                    THEN (IF isInTune THEN {"in-tune"} ELSE {"active"})
                    ELSE {})]
    ELSE LET c == Closest(f, 0, [closestString |-> NULL_INDEX,
                                 minDistance |-> 0])
         IN [i \in 0..5 |->
               (buttons[i] \ {"active", "in-tune"})
                 \cup (IF i = c.closestString /\ c.minDistance < SEMITONE_RATIO
                       THEN (IF isInTune /\ c.minDistance < IN_TUNE_RATIO
                             THEN {"in-tune"} ELSE {"active"})
                       ELSE {})]

\* The text of NaN.
TEXT_NAN == <<"N", "a", "N">>

\* updateDisplay(frequency) for a negative frequency: Math.log2 is NaN, and
\* so are the cents; every comparison with NaN is false, so no segment is
\* lit and no string is the closest one.
updateDisplayNaN(f) ==
    /\ noteEl' = [text |-> IF lockedStringIndex # NULL_INDEX
                           THEN GUITAR_STRINGS[lockedStringIndex].note
                           ELSE "undefined",
                  inTune |-> FALSE]
    /\ octaveEl' = IF lockedStringIndex # NULL_INDEX
                   THEN <<GUITAR_STRINGS[lockedStringIndex].octave>>
                   ELSE TEXT_NAN
    /\ hzValueEl' = ToFixed1(f)
    /\ centsValueEl' = TEXT_NAN
    /\ segments' = {}
    /\ stringButtons' =
         [i \in 0..5 |->
            (stringButtons[i] \ {"active", "in-tune"})
              \cup (IF i = lockedStringIndex THEN {"active"} ELSE {})]

\* updateDisplay(frequency), app.js:328-410.
updateDisplay(f) ==
    IF f[1] < 0 THEN updateDisplayNaN(f)
    ELSE
    LET shown == Shown(f, lockedStringIndex)
        isInTune == IsInTune(shown.cents)
    IN /\ noteEl' = [text |-> shown.note, inTune |-> isInTune]
       /\ octaveEl' = <<shown.octave>>
       /\ hzValueEl' = ToFixed1(f)
       /\ centsValueEl' = CentsText(shown.cents)
       /\ segments' = LitSegments(shown.cents)
       /\ stringButtons' =
            updateStringIndicators(f, isInTune, lockedStringIndex, stringButtons)

\* The text of the note and the frequency when nothing is shown.
DASH == "--"

\* resetDisplay() clearing the lock as well.
resetDisplayClearsLock ==
    /\ noteEl' = [text |-> DASH, inTune |-> FALSE]
    /\ octaveEl' = <<>>
    /\ hzValueEl' = <<DASH>>
    /\ centsValueEl' = <<"0">>
    /\ segments' = {}
    /\ stringButtons' = [i \in 0..5 |-> {}]
    /\ lockedStringIndex' = NULL_INDEX

\* resetDisplay(), app.js:221-237.
resetDisplay ==
    /\ noteEl' = [text |-> DASH, inTune |-> FALSE]
    /\ octaveEl' = <<>>
    /\ hzValueEl' = <<DASH>>
    /\ centsValueEl' = <<"0">>
    /\ segments' = {}
    /\ stringButtons' = [i \in 0..5 |-> stringButtons[i] \ {"active", "in-tune"}]
    \* "Don't reset lockedStringIndex", app.js:236
    /\ UNCHANGED lockedStringIndex

\* The no-signal branch's display changes, app.js:271-274.
clearIndicators ==
    /\ noteEl' = [noteEl EXCEPT !.inTune = FALSE]
    /\ segments' = {}
    /\ stringButtons' = [i \in 0..5 |-> stringButtons[i] \ {"active", "in-tune"}]
    /\ UNCHANGED <<octaveEl, hzValueEl, centsValueEl>>

domVars == <<noteEl, octaveEl, hzValueEl, centsValueEl, segments, stringButtons>>

----------------------------------------------------------------------------
(* The session: startListening, stopListening, detectPitch,                *)
(* toggleStringLock (app.js:52-126, 196-219, 239-278).                     *)

\* The windows getFloatTimeDomainData may fill, app.js:242-244.
Windows(bufferLength) == [1..bufferLength -> Samples]

RECURSIVE SumOfSquares(_, _)
SumOfSquares(buffer, n) ==
    IF n = 0 THEN 0 ELSE SumOfSquares(buffer, n - 1) + buffer[n] * buffer[n]

\* The local rms of app.js:247-251 against MIN_VOLUME: -1, 0 or 1 as
\* sqrt(sum / bufferLength) is below, equal to or above it.
RmsVsMin(buffer) ==
    LET lhs == SumOfSquares(buffer, Len(buffer)) * MIN_VOLUME[2] * MIN_VOLUME[2]
        rhs == MIN_VOLUME[1] * MIN_VOLUME[1] * SAMPLE_UNIT * SAMPLE_UNIT
                 * Len(buffer)
    IN IF lhs < rhs THEN -1 ELSE IF lhs = rhs THEN 0 ELSE 1

\* The gate left out: every window is processed.
EnoughSignalAlways(buffer) == RmsVsMin(buffer) >= -1

\* rms > MIN_VOLUME, app.js:254
EnoughSignal(buffer) == RmsVsMin(buffer) > 0

\* The test left out: the sentinel is taken for an estimate.
FoundAlways(f) == f # NULL

\* frequency !== -1, app.js:257
Found(f) == f # NOT_FOUND

\* The first reading blended too, with 0 for the missing previous value.
SmoothBlendsFromZero(previous, f) ==
    RatAdd(RatMul(EMA_ALPHA, f),
           RatMul(RatSub(<<1, 1>>, EMA_ALPHA),
                  IF previous = NULL THEN <<0, 1>> ELSE previous))

\* The smoothing of app.js:259-265.
Smooth(previous, f) ==
    IF previous = NULL
    THEN f
    ELSE RatAdd(RatMul(EMA_ALPHA, f),
                RatMul(RatSub(<<1, 1>>, EMA_ALPHA), previous))

\* requestAnimationFrame's return value: an id not in use.
NewId(requests) ==
    CHOOSE id \in 1..(MaxFrames + 1) :
        /\ id \notin requests
        /\ id # animationId
        /\ \A other \in 1..(id - 1) : other \in requests \/ other = animationId

\* The locals rms and frequency of detectPitch, app.js:242-255, computed
\* from the window the analyser fills: frequency is computed only behind
\* the volume gate.
Heard(buffer, sampleRate) ==
    [rms |-> RmsVsMin(buffer),
     enough |-> EnoughSignal(buffer),
     frequency |-> IF EnoughSignal(buffer)
                   THEN autoCorrelate(buffer, sampleRate)
                   ELSE NULL]

\* What detectPitch computes from each window the analyser may fill, for
\* each sampling rate.
HeardOf == {<<sampleRate, Heard(buffer, sampleRate)>> :
               sampleRate \in SampleRates, buffer \in Windows(FftSize)}

Hearable(context) == {h[2] : h \in {g \in HeardOf : g[1] = context[1]}}

\* requestAnimationFrame moved into the branch that processes a signal: a
\* silent tick schedules nothing.
detectPitchEndsOnSilence(heard, requests) ==
    /\ rmsVsMin' = <<heard.rms>>
    /\ frequency' = heard.frequency
    /\ IF heard.enough
       THEN /\ IF Found(heard.frequency)
               THEN /\ sinceReset < MaxEstimates
                    /\ sinceReset' = sinceReset + 1
                    /\ smoothedFrequency' = Smooth(smoothedFrequency, heard.frequency)
                    /\ updateDisplayArg' = smoothedFrequency'
                    /\ updateDisplay(smoothedFrequency')
               ELSE /\ UNCHANGED <<smoothedFrequency, sinceReset>>
                    /\ UNCHANGED domVars
                    /\ updateDisplayArg' = NULL
            /\ animationId' = NewId(requests)
            /\ frameRequests' = requests \cup {animationId'}
       ELSE /\ smoothedFrequency' = NULL
            /\ sinceReset' = 0
            /\ updateDisplayArg' = NULL
            /\ clearIndicators
            /\ UNCHANGED animationId
            /\ frameRequests' = requests

\* detectPitch(), app.js:239-278, past its isListening test, having
\* computed `heard` from the window, with `requests` the frame callbacks
\* still scheduled.
detectPitch(heard, requests) ==
    /\ rmsVsMin' = <<heard.rms>>
    /\ frequency' = heard.frequency
    /\ IF heard.enough
       THEN IF Found(heard.frequency)
            THEN /\ sinceReset < MaxEstimates
                 /\ sinceReset' = sinceReset + 1
                 /\ smoothedFrequency' = Smooth(smoothedFrequency, heard.frequency)
                 /\ updateDisplayArg' = smoothedFrequency'
                 /\ updateDisplay(smoothedFrequency')
            ELSE /\ UNCHANGED <<smoothedFrequency, sinceReset>>
                 /\ UNCHANGED domVars
                 /\ updateDisplayArg' = NULL
       ELSE /\ smoothedFrequency' = NULL
            /\ sinceReset' = 0
            /\ updateDisplayArg' = NULL
            /\ clearIndicators
    /\ animationId' = NewId(requests)
    /\ frameRequests' = requests \cup {animationId'}

\* The isListening test left out: the callback runs a tick on a silent
\* window and schedules the next one.
detectPitchReturnsUnguarded(requests) ==
    /\ rmsVsMin' = <<-1>>
    /\ frequency' = NULL
    /\ smoothedFrequency' = NULL
    /\ sinceReset' = 0
    /\ updateDisplayArg' = NULL
    /\ clearIndicators
    /\ animationId' = NewId(requests)
    /\ frameRequests' = requests \cup {animationId'}

\* detectPitch() returning at its isListening test, app.js:240.
detectPitchReturns(requests) ==
    /\ UNCHANGED <<smoothedFrequency, animationId, sinceReset>>
    /\ UNCHANGED domVars
    /\ frameRequests' = requests
    /\ rmsVsMin' = NULL
    /\ frequency' = NULL
    /\ updateDisplayArg' = NULL

\* updateUI(), app.js:128-142
updateUI(listening) == startBtn' = listening

Init ==
    /\ audioContext = NULL
    /\ analyser = NULL
    /\ mediaStream = NULL
    /\ isListening = FALSE
    /\ animationId = NULL_ID
    /\ lockedStringIndex = NULL_INDEX
    /\ smoothedFrequency = NULL
    /\ startBtn = FALSE
    /\ noteEl = [text |-> DASH, inTune |-> FALSE]
    /\ octaveEl = <<>>
    /\ hzValueEl = <<DASH>>
    /\ centsValueEl = <<"0">>
    /\ segments = {}
    /\ stringButtons = [i \in 0..5 |-> {}]
    /\ startsAwaiting = 0
    /\ frameRequests = {}
    /\ lastOp = "init"
    /\ lastIndex = NULL_INDEX
    /\ lockedBefore = NULL_INDEX
    /\ rmsVsMin = NULL
    /\ frequency = NULL
    /\ updateDisplayArg = NULL
    /\ sinceReset = 0
    /\ acBuffer = <<>>
    /\ acSampleRate = 0
    /\ acResult = NULL

\* A click on the start button while not listening: toggleListening calls
\* startListening, which suspends at await getUserMedia (app.js:52-69).
toggleListeningStart ==
    /\ ~isListening
    /\ startsAwaiting < MaxStarts
    /\ startsAwaiting' = startsAwaiting + 1
    /\ lastOp' = "toggleListening"
    /\ UNCHANGED acVars
    /\ lastIndex' = NULL_INDEX
    /\ lockedBefore' = NULL_INDEX
    /\ rmsVsMin' = NULL
    /\ frequency' = NULL
    /\ updateDisplayArg' = NULL
    /\ UNCHANGED <<audioContext, analyser, mediaStream, isListening,
                   animationId, lockedStringIndex, smoothedFrequency, startBtn,
                   frameRequests, sinceReset>>
    /\ UNCHANGED domVars

\* getUserMedia resolves and the setup succeeds: the rest of startListening,
\* app.js:63-89, with the first detectPitch() call.
startListeningGranted(sampleRate, heard) ==
    /\ startsAwaiting > 0
    /\ Cardinality(frameRequests) < MaxFrames
    /\ startsAwaiting' = startsAwaiting - 1
    /\ mediaStream' = <<"live">>
    /\ audioContext' = <<sampleRate>>
    /\ analyser' = <<FftSize>>
    /\ isListening' = TRUE
    /\ updateUI(TRUE)
    /\ detectPitch(heard, frameRequests)
    /\ lastOp' = "startListening"
    /\ UNCHANGED acVars
    /\ lastIndex' = NULL_INDEX
    /\ lockedBefore' = NULL_INDEX
    /\ UNCHANGED lockedStringIndex

\* getUserMedia rejects, or a later call of the setup throws: the catch of
\* app.js:91-95, after the assignments made before `stage`.
SetupStages == <<"getUserMedia", "AudioContext", "createAnalyser",
                 "createMediaStreamSource">>

\* startListening leaving through its catch with isListening as `listening`.
startListeningCaught(stage, sampleRate, listening) ==
    /\ startsAwaiting > 0
    /\ startsAwaiting' = startsAwaiting - 1
    /\ mediaStream' = IF stage >= 2 THEN <<"live">> ELSE mediaStream
    /\ audioContext' = IF stage >= 3 THEN <<sampleRate>> ELSE audioContext
    /\ analyser' = IF stage >= 4 THEN <<FftSize>> ELSE analyser
    /\ isListening' = listening
    /\ lastOp' = "startListeningFailed"
    /\ UNCHANGED acVars
    /\ lastIndex' = NULL_INDEX
    /\ lockedBefore' = NULL_INDEX
    /\ rmsVsMin' = NULL
    /\ frequency' = NULL
    /\ updateDisplayArg' = NULL
    /\ UNCHANGED <<animationId, lockedStringIndex, smoothedFrequency,
                   startBtn, frameRequests, sinceReset>>
    /\ UNCHANGED domVars

\* isListening = true moved before the calls that may throw.
startListeningFailedListening(stage, sampleRate) ==
    startListeningCaught(stage, sampleRate, TRUE)

\* isListening = true (app.js:83) comes after every call that may throw.
startListeningFailed(stage, sampleRate) ==
    startListeningCaught(stage, sampleRate, isListening)

\* A click on the start button while listening: toggleListening calls
\* stopListening (app.js:52-54, 98-126).
stopListening ==
    /\ isListening
    /\ isListening' = FALSE
    /\ frameRequests' = IF animationId # NULL_ID
                        THEN frameRequests \ {animationId}
                        ELSE frameRequests
    /\ animationId' = NULL_ID
    /\ mediaStream' = NULL
    /\ audioContext' = NULL
    /\ smoothedFrequency' = NULL
    /\ sinceReset' = 0
    /\ resetDisplay
    /\ updateUI(FALSE)
    /\ lastOp' = "stopListening"
    /\ UNCHANGED acVars
    /\ lastIndex' = NULL_INDEX
    /\ lockedBefore' = NULL_INDEX
    /\ rmsVsMin' = NULL
    /\ frequency' = NULL
    /\ updateDisplayArg' = NULL
    /\ UNCHANGED <<analyser, startsAwaiting>>

\* The browser runs a scheduled frame callback: detectPitch, app.js:277.
frameCallback(id, heard) ==
    /\ id \in frameRequests
    /\ IF isListening
       THEN detectPitch(heard, frameRequests \ {id})
       ELSE detectPitchReturns(frameRequests \ {id})
    /\ lastOp' = "detectPitch"
    /\ UNCHANGED acVars
    /\ lastIndex' = NULL_INDEX
    /\ lockedBefore' = NULL_INDEX
    /\ UNCHANGED <<audioContext, analyser, mediaStream, isListening,
                   lockedStringIndex, startBtn, startsAwaiting>>

\* The class changes of app.js:206, 211-217.
lockedClasses(index, buttons) ==
    IF lockedStringIndex = index
    THEN [buttons EXCEPT ![index] = @ \ {"locked"}]
    ELSE [i \in 0..5 |-> IF i = index THEN buttons[i] \cup {"locked"}
                                      ELSE buttons[i] \ {"locked"}]

\* The unlock branch left out.
ToggledLockNeverUnlocks(locked, index) == index

\* The lock after toggleStringLock(index), app.js:203-209.
ToggledLock(locked, index) == IF locked = index THEN NULL_INDEX ELSE index

\* A click on a string button: toggleStringLock(index), app.js:202-219.
toggleStringLock(index) ==
    /\ lockedStringIndex' = ToggledLock(lockedStringIndex, index)
    /\ stringButtons' = lockedClasses(index, stringButtons)
    /\ lastOp' = "toggleStringLock"
    /\ UNCHANGED acVars
    /\ lastIndex' = index
    /\ lockedBefore' = lockedStringIndex
    /\ rmsVsMin' = NULL
    /\ frequency' = NULL
    /\ updateDisplayArg' = NULL
    /\ UNCHANGED <<audioContext, analyser, mediaStream, isListening,
                   animationId, smoothedFrequency, startBtn, noteEl,
                   octaveEl, hzValueEl, centsValueEl, segments, startsAwaiting,
                   frameRequests, sinceReset>>

Next ==
    \/ toggleListeningStart
    \/ \E sampleRate \in SampleRates :
         \E heard \in Hearable(<<sampleRate>>) :
            startListeningGranted(sampleRate, heard)
    \/ \E stage \in 1..Len(SetupStages) :
         \E sampleRate \in SampleRates :
            startListeningFailed(stage, sampleRate)
    \/ stopListening
    \/ \E id \in frameRequests :
         \E heard \in IF isListening THEN Hearable(audioContext) ELSE {NULL} :
            frameCallback(id, heard)
    \/ \E index \in Clicked : toggleStringLock(index)

Spec == Init /\ [][Next]_vars

\* The browser runs a scheduled frame callback.
FrameRuns ==
    \E id \in frameRequests :
      \E heard \in IF isListening THEN Hearable(audioContext) ELSE {NULL} :
         frameCallback(id, heard)

\* The browser runs every frame callback that stays scheduled.
LiveSpec == Spec /\ WF_vars(FrameRuns)

\* The estimator on its own.
AcNext == CallAutoCorrelate /\ UNCHANGED sessionVars

AcStart ==
    /\ AcInit
    /\ audioContext = NULL
    /\ analyser = NULL
    /\ mediaStream = NULL
    /\ isListening = FALSE
    /\ animationId = NULL_ID
    /\ lockedStringIndex = NULL_INDEX
    /\ smoothedFrequency = NULL
    /\ startBtn = FALSE
    /\ noteEl = [text |-> DASH, inTune |-> FALSE]
    /\ octaveEl = <<>>
    /\ hzValueEl = <<DASH>>
    /\ centsValueEl = <<"0">>
    /\ segments = {}
    /\ stringButtons = [i \in 0..5 |-> {}]
    /\ startsAwaiting = 0
    /\ frameRequests = {}
    /\ lastOp = "init"
    /\ lastIndex = NULL_INDEX
    /\ lockedBefore = NULL_INDEX
    /\ rmsVsMin = NULL
    /\ frequency = NULL
    /\ updateDisplayArg = NULL
    /\ sinceReset = 0

AcSpec == AcStart /\ [][AcNext]_vars

----------------------------------------------------------------------------
(* The display on its own: updateDisplay applied to every frequency of a   *)
(* bounded set, under every lock.                                          *)

\* The last step of the sweep around A2: 106.25 Hz, 106.30 Hz, ...
MaxSweep == 153

\* A sweep of about 0.8 cents a step from 60 cents below A2 to 60 cents
\* above it: every whole number of cents in between is shown.
SweepFrequencies == {Rat(10625 + 5 * k, 100) : k \in 0..MaxSweep}

\* The targets of the strings, A4, frequencies at either side of the middle
\* between two notes, frequencies of negative MIDI numbers, and frequencies
\* far from every string.
NamedFrequencies ==
    {GUITAR_STRINGS[i].freq : i \in 0..5}
      \cup {<<440, 1>>, <<45289, 100>>, <<4529, 10>>, <<1, 1>>, <<5, 1>>,
            <<77, 10>>, <<8, 1>>, <<20, 1>>, <<200, 1>>, <<240, 1>>,
            <<400, 1>>, <<880, 1>>, <<1697, 20>>, <<1747, 20>>,
            <<2077, 20>>, <<2331, 20>>, <<1000, 1>>}

Frequencies == SweepFrequencies \cup NamedFrequencies

Locks == {NULL_INDEX} \cup (0..5)

ShowInit ==
    /\ smoothedFrequency \in Frequencies
    /\ lockedStringIndex \in Locks
    /\ stringButtons = [i \in 0..5 |->
                          IF i = lockedStringIndex THEN {"locked"} ELSE {}]
    /\ audioContext = <<400>>
    /\ analyser = <<FftSize>>
    /\ mediaStream = <<"live">>
    /\ isListening = TRUE
    /\ animationId = NULL_ID
    /\ startBtn = TRUE
    /\ noteEl = [text |-> DASH, inTune |-> FALSE]
    /\ octaveEl = <<>>
    /\ hzValueEl = <<DASH>>
    /\ centsValueEl = <<"0">>
    /\ segments = {}
    /\ startsAwaiting = 0
    /\ frameRequests = {}
    /\ lastOp = "init"
    /\ lastIndex = NULL_INDEX
    /\ lockedBefore = NULL_INDEX
    /\ rmsVsMin = NULL
    /\ frequency = NULL
    /\ updateDisplayArg = NULL
    /\ sinceReset = 1
    /\ acBuffer = <<>>
    /\ acSampleRate = 0
    /\ acResult = NULL

\* updateDisplay(smoothedFrequency), app.js:266.
CallUpdateDisplay ==
    /\ updateDisplayArg = NULL
    /\ updateDisplayArg' = smoothedFrequency
    /\ updateDisplay(smoothedFrequency)
    /\ lastOp' = "updateDisplay"
    /\ UNCHANGED <<audioContext, analyser, mediaStream, isListening,
                   animationId, lockedStringIndex, smoothedFrequency, startBtn,
                   startsAwaiting, frameRequests, lastIndex, lockedBefore,
                   rmsVsMin, frequency, sinceReset>>
    /\ UNCHANGED acVars

ShowNext == CallUpdateDisplay

ShowSpec == ShowInit /\ [][ShowNext]_vars

----------------------------------------------------------------------------
(* Properties. *)

\* No indicator is shown: the in-tune mark, the meter and the string buttons.
IndicatorsCleared ==
    /\ ~noteEl.inTune
    /\ segments = {}
    /\ \A i \in 0..5 : stringButtons[i] \cap {"active", "in-tune"} = {}

\* The buttons that carry the class locked.
LockedButtons == {i \in 0..5 : "locked" \in stringButtons[i]}

\* C1: a tick that passes the volume gate and for which the estimator
\* reports "not found" resets the smoothing state and clears the in-tune
\* mark, the meter segments and the string indicators.
C1_NotFoundResets ==
    [][(rmsVsMin' = <<1>> /\ frequency' = NOT_FOUND)
         => (smoothedFrequency' = NULL /\ IndicatorsCleared')]_vars

\* C2: stopListening cancels the callback animationId names, and while
\* isListening is false a frame callback that still runs reads no window,
\* leaves the smoothing state and the display alone and schedules nothing.
C2_NoTickAfterStop ==
    [][/\ lastOp' = "stopListening"
            => /\ animationId' = NULL_ID
               /\ animationId # NULL_ID => animationId \notin frameRequests'
       /\ (~isListening /\ lastOp' = "detectPitch")
            => /\ rmsVsMin' = NULL
               /\ frequency' = NULL
               /\ updateDisplayArg' = NULL
               /\ smoothedFrequency' = smoothedFrequency
               /\ UNCHANGED domVars
               /\ frameRequests' \subseteq frameRequests
               /\ ~isListening']_vars

\* A frame callback that was still scheduled ran after stopListening.
C2_Witness ==
    /\ lastOp = "detectPitch"
    /\ ~isListening
    /\ rmsVsMin = NULL

\* C3: on a tick whose window has an RMS below 0.01 the correlation scan
\* is not run, the smoothing state is reset, and no result is shown: the
\* indicators are cleared.
C3_SilenceGated ==
    [][rmsVsMin' = <<-1>>
         => /\ frequency' = NULL
            /\ smoothedFrequency' = NULL
            /\ updateDisplayArg' = NULL
            /\ IndicatorsCleared']_vars

\* A silent tick after a pitch had been shown.
C3_Witness ==
    /\ lastOp = "detectPitch"
    /\ rmsVsMin = <<-1>>
    /\ smoothedFrequency = NULL
    /\ hzValueEl # <<DASH>>

\* C4: the first valid estimate after a reset of the smoothing state (a
\* silent tick, stopListening) becomes the smoothed frequency as it is, and
\* is what is shown.
C4_FirstEstimateVerbatim ==
    [][(sinceReset = 0 /\ frequency' # NULL /\ frequency' # NOT_FOUND)
         => /\ smoothedFrequency' = frequency'
            /\ updateDisplayArg' = frequency'
            /\ hzValueEl' = ToFixed1(frequency')]_vars

\* The first estimate after a reset that followed another pitch: the
\* display had shown 400.0 or a blend, and now shows 200.0.
C4_Witness ==
    /\ sinceReset = 1
    /\ frequency = <<200, 1>>
    /\ smoothedFrequency = <<200, 1>>
    /\ hzValueEl = <<200, 0>>
    /\ lastOp = "detectPitch"

\* C5: toggleStringLock(i) locks i when the lock is none or another index
\* and unlocks when i is locked; at most one button is locked, the one of
\* lockedStringIndex; two toggleStringLock(i) in a row from the unlocked
\* state end unlocked.
C5_ToggleLock ==
    [][/\ lastOp' = "toggleStringLock"
            => lockedStringIndex' = IF lockedStringIndex = lastIndex'
                                    THEN NULL_INDEX ELSE lastIndex'
       /\ Cardinality(LockedButtons') <= 1
       /\ LockedButtons' = IF lockedStringIndex' = NULL_INDEX
                           THEN {} ELSE {lockedStringIndex'}
       /\ (/\ lastOp = "toggleStringLock"
           /\ lockedBefore = NULL_INDEX
           /\ lastOp' = "toggleStringLock"
           /\ lastIndex' = lastIndex)
            => lockedStringIndex' = NULL_INDEX]_vars

\* The second of two toggleStringLock(i) from the unlocked state.
C5_Witness ==
    /\ lastOp = "toggleStringLock"
    /\ lockedBefore = lastIndex
    /\ lockedStringIndex = NULL_INDEX
    /\ LockedButtons = {}

\* C6: only toggleStringLock changes the lock: starting, stopping and every
\* tick leave lockedStringIndex and the locked button as they are.
C6_LockOnlyToggled ==
    [][lastOp' # "toggleStringLock"
         => /\ lockedStringIndex' = lockedStringIndex
            /\ LockedButtons' = LockedButtons]_vars

\* The first tick of a session, run by startListening, shows the deviation
\* from the locked string G3.
C6_Witness ==
    /\ lastOp = "startListening"
    /\ lockedStringIndex = 3
    /\ LockedButtons = {3}
    /\ updateDisplayArg = <<200, 1>>
    /\ noteEl.text = "G"
    /\ octaveEl = <<3>>
    /\ centsValueEl = <<"+", 35>>

\* C7: when startListening fails, isListening, the scheduled callbacks, the
\* smoothing state, the lock and the display are as before, and no tick
\* ran; an idle session stays idle.
C7_FailedStartStaysIdle ==
    [][lastOp' = "startListeningFailed"
         => /\ isListening' = isListening
            /\ frameRequests' = frameRequests
            /\ animationId' = animationId
            /\ smoothedFrequency' = smoothedFrequency
            /\ lockedStringIndex' = lockedStringIndex
            /\ rmsVsMin' = NULL
            /\ UNCHANGED domVars]_vars

\* The setup failed after the microphone was acquired, in an idle session.
C7_Witness ==
    /\ lastOp = "startListeningFailed"
    /\ ~isListening
    /\ mediaStream # NULL
    /\ frameRequests = {}

\* The lags autoCorrelate scans for which the correlation is defined.
AcLags ==
    {lag \in (acSampleRate \div 400)
               ..(Min(Len(acBuffer) \div 2, acSampleRate \div 80) - 1) :
        Correlation(acBuffer, lag).normSq > 0}

\* lag is the smallest of the lags with the greatest correlation.
AcFirstMaximum(lag) ==
    /\ lag \in AcLags
    /\ \A other \in AcLags :
          /\ ~CorrGreater(Correlation(acBuffer, other),
                          Correlation(acBuffer, lag))
          /\ other < lag => CorrGreater(Correlation(acBuffer, lag),
                                        Correlation(acBuffer, other))

\* C8: autoCorrelate returns a frequency exactly when the greatest
\* correlation over the scanned lags is above 0.2 and its lag is positive;
\* otherwise (an empty window, a silent one, no lag with energy) it returns
\* the sentinel.
C8_AcceptedOnly ==
    acResult # NULL
      => ((acResult # NOT_FOUND)
            <=> \E lag \in AcLags :
                   /\ AcFirstMaximum(lag)
                   /\ lag > 0
                   /\ Correlation(acBuffer, lag).num > 0
                   /\ 25 * Correlation(acBuffer, lag).num
                         * Correlation(acBuffer, lag).num
                        > Correlation(acBuffer, lag).normSq)

\* The greatest correlation is positive and at most 0.2: not found.
C8_Witness ==
    /\ acResult = NOT_FOUND
    /\ \E lag \in AcLags :
          /\ AcFirstMaximum(lag)
          /\ lag > 0
          /\ Correlation(acBuffer, lag).num > 0

\* C9: a frequency autoCorrelate returns is sampleRate / lag for a lag
\* with floor(sampleRate/400) <= lag < min(floor(N/2), floor(sampleRate/80));
\* it is positive, above sampleRate / maxPeriod and at most
\* sampleRate / minPeriod.
C9_FrequencyInRange ==
    (acResult # NULL /\ acResult # NOT_FOUND)
      => /\ \E lag \in (acSampleRate \div 400)
                         ..(Min(Len(acBuffer) \div 2, acSampleRate \div 80) - 1) :
               /\ lag > 0
               /\ acResult[1] * lag = acSampleRate * acResult[2]
         /\ acResult[1] > 0
         /\ acResult[2] > 0
         /\ acResult[1] * (acSampleRate \div 80) > acSampleRate * acResult[2]
         /\ acResult[1] * (acSampleRate \div 400) <= acSampleRate * acResult[2]

\* The longest lag of a scan that maxPeriod ends: 400 / 4 on a window of
\* LongLen samples.
C9_Witness ==
    /\ Len(acBuffer) = LongLen
    /\ acSampleRate = 400
    /\ acResult = <<100, 1>>

\* C10: the smoothing state is uninitialized or positive, and updateDisplay
\* is called with a positive frequency only.
C10_PositiveFrequency ==
    /\ smoothedFrequency # NULL => smoothedFrequency[1] > 0
                                    /\ smoothedFrequency[2] > 0
    /\ updateDisplayArg # NULL => updateDisplayArg[1] > 0
                                   /\ updateDisplayArg[2] > 0

\* A blended frequency shown as the deviation from a locked string.
C10_Witness ==
    /\ updateDisplayArg # NULL
    /\ sinceReset = 2
    /\ lockedStringIndex # NULL_INDEX
    /\ centsValueEl # <<"0">>

\* updateDisplay has run, in free mode or under a lock.
ShownFree == updateDisplayArg # NULL /\ lockedStringIndex = NULL_INDEX
ShownLocked == updateDisplayArg # NULL /\ lockedStringIndex # NULL_INDEX

\* The cents the display shows.
ShownCents ==
    IF centsValueEl[1] = "+" THEN centsValueEl[2] ELSE -centsValueEl[2]

\* The index in NOTE_NAMES of the note the display shows.
ShownNoteIndex == CHOOSE i \in 0..11 : NOTE_NAMES[i + 1] = noteEl.text

\* The MIDI number of the note and octave the display shows.
ShownMidi == 12 * (octaveEl[1] + 1) + ShownNoteIndex

\* C11: in free mode the cents shown are within -50..50 and are the
\* deviation of the frequency from the note shown: near the middle between
\* two notes the note shown is one of the two, at 50 cents, and never a
\* note further away.
C11_FreeCentsInRange ==
    ShownFree
      => /\ ShownCents \in -50..50
         /\ noteEl.text \in {NOTE_NAMES[i] : i \in 1..12}
         /\ ShownCents
              = RoundCents(Rat(updateDisplayArg[1],
                               updateDisplayArg[2] * A4_FREQ))
                  - 100 * (ShownMidi - A4_MIDI)

\* 452.89 Hz, just below the middle between A4 and A#4, is shown as A4 +50.
C11_Witness ==
    /\ ShownFree
    /\ updateDisplayArg = <<45289, 100>>
    /\ noteEl.text = "A"
    /\ octaveEl = <<4>>
    /\ centsValueEl = <<"+", 50>>

\* C12: in free mode, with m the rounded MIDI number of the frequency, the
\* note shown is NOTE_NAMES[noteIndex] for a noteIndex in 0..11 and the
\* octave shown satisfies 12 * (octave + 1) + noteIndex = m, for negative m
\* too; m = 69 is shown as A4 and m = 40 as E2.
C12_NoteAndOctave ==
    ShownFree
      => LET m == getNoteFromFrequency(updateDisplayArg).midi
         IN /\ \E noteIndex \in 0..11 :
                  /\ noteEl.text = NOTE_NAMES[noteIndex + 1]
                  /\ 12 * (octaveEl[1] + 1) + noteIndex = m
            /\ m = 69 => noteEl.text = "A" /\ octaveEl = <<4>>
            /\ m = 40 => noteEl.text = "E" /\ octaveEl = <<2>>

\* 7.7 Hz has the rounded MIDI number -1 and is shown as B, octave -2.
C12_Witness ==
    /\ ShownFree
    /\ updateDisplayArg = <<77, 10>>
    /\ getNoteFromFrequency(updateDisplayArg).midi = -1
    /\ noteEl.text = "B"
    /\ octaveEl = <<-2>>

\* C13: under a lock the note and octave shown are the locked string's,
\* whatever the frequency; the cents are 0 at the string's target, not
\* negative above it, not positive below it, and non-decreasing in the
\* frequency.
C13_LockedNoteAndCents ==
    ShownLocked
      => LET target == GUITAR_STRINGS[lockedStringIndex].freq
         IN /\ noteEl.text = GUITAR_STRINGS[lockedStringIndex].note
            /\ octaveEl = <<GUITAR_STRINGS[lockedStringIndex].octave>>
            /\ updateDisplayArg = target => ShownCents = 0
            /\ RatLess(target, updateDisplayArg) => ShownCents >= 0
            /\ RatLess(updateDisplayArg, target) => ShownCents <= 0
            /\ \A g \in Frequencies :
                  RatLeq(g, updateDisplayArg)
                    => LockedCents(g, lockedStringIndex) <= ShownCents

\* 200 Hz, a sharp G3, under the lock on the low E string: E2, +1535.
C13_Witness ==
    /\ ShownLocked
    /\ lockedStringIndex = 0
    /\ updateDisplayArg = <<200, 1>>
    /\ noteEl.text = "E"
    /\ octaveEl = <<2>>
    /\ centsValueEl = <<"+", 1535>>

\* C14: the in-tune mark of the note is set exactly when the cents shown,
\* which are not clamped, are within -5..5: set at 5 and -5, not at 6 and
\* -6, and never for a deviation beyond 50 under a lock.
C14_InTuneExactly ==
    updateDisplayArg # NULL
      => /\ noteEl.inTune <=> (-5 <= ShownCents /\ ShownCents <= 5)
         /\ (ShownCents > 50 \/ ShownCents < -50) => ~noteEl.inTune

\* 110.3 Hz under the lock on the A string: +5, in tune.
C14_Witness ==
    /\ ShownLocked
    /\ lockedStringIndex = 1
    /\ updateDisplayArg = <<1103, 10>>
    /\ centsValueEl = <<"+", 5>>
    /\ noteEl.inTune

\* The string buttons marked active or in-tune.
MarkedStrings ==
    {i \in 0..5 : stringButtons[i] \cap {"active", "in-tune"} # {}}

\* C15: after updateDisplay at most one string button is marked: under a
\* lock the locked one; in free mode the string closest to the frequency
\* when it is less than 100 cents away, and none otherwise.
C15_OneStringMarked ==
    updateDisplayArg # NULL
      => /\ Cardinality(MarkedStrings) <= 1
         /\ ShownLocked => MarkedStrings = {lockedStringIndex}
         /\ ShownFree
              => MarkedStrings
                   = {i \in 0..5 :
                        /\ StringDistance(updateDisplayArg, i) < SEMITONE_RATIO
                        /\ \A j \in 0..5 :
                              StringDistance(updateDisplayArg, i)
                                <= StringDistance(updateDisplayArg, j)}

\* 116.55 Hz is 100.1 cents above the A string, the closest: none marked.
C15_Witness ==
    /\ ShownFree
    /\ updateDisplayArg = <<2331, 20>>
    /\ MarkedStrings = {}
    /\ \A j \in 0..5 : StringDistance(updateDisplayArg, 1)
                         <= StringDistance(updateDisplayArg, j)

\* C16: a valid estimate that is not the first since a reset gives
\* smoothed' = 0.2 * raw + 0.8 * smoothed: a value between the two, equal to
\* the raw one when the two are equal, and at 0.8 times the previous
\* distance from the raw one.
C16_ExponentialAverage ==
    [][(/\ smoothedFrequency # NULL
        /\ sinceReset >= 1
        /\ frequency' # NULL
        /\ frequency' # NOT_FOUND)
         => /\ RatMul(<<5, 1>>, smoothedFrequency')
                 = RatAdd(frequency', RatMul(<<4, 1>>, smoothedFrequency))
            /\ \/ /\ RatLeq(smoothedFrequency, smoothedFrequency')
                  /\ RatLeq(smoothedFrequency', frequency')
               \/ /\ RatLeq(frequency', smoothedFrequency')
                  /\ RatLeq(smoothedFrequency', smoothedFrequency)
            /\ frequency' = smoothedFrequency
                 => smoothedFrequency' = frequency'
            /\ RatMul(<<5, 1>>, RatSub(smoothedFrequency', frequency'))
                 = RatMul(<<4, 1>>, RatSub(smoothedFrequency, frequency'))]_vars

\* 400 Hz heard after 200 Hz: 240 Hz.
C16_Witness ==
    /\ sinceReset = 2
    /\ frequency = <<400, 1>>
    /\ smoothedFrequency = <<240, 1>>
    /\ updateDisplayArg = <<240, 1>>

\* C17: at most one frame callback is scheduled at any time.
C17_SingleTickLoop == Cardinality(frameRequests) <= 1

\* C18: while listening, a tick schedules one frame callback, whatever its
\* branch (a pitch, no pitch, no signal): the callback animationId names is
\* scheduled after it, and as many are scheduled as before the callback ran
\* (one more after the first tick, which startListening runs); a callback is
\* scheduled whenever the session listens, and ticks keep running unless
\* the session stops.
C18_TickReschedules ==
    /\ [][(isListening' /\ rmsVsMin' # NULL)
            => /\ animationId' # NULL_ID
               /\ animationId' \in frameRequests'
               /\ Cardinality(frameRequests')
                    = Cardinality(frameRequests)
                        + (IF lastOp' = "startListening" THEN 1 ELSE 0)]_vars
    /\ [](isListening => animationId \in frameRequests)
    /\ (<>[]isListening => []<><<FrameRuns>>_vars)

\* A tick above the volume gate that found no pitch has scheduled the next.
C18_Witness ==
    /\ isListening
    /\ lastOp = "detectPitch"
    /\ rmsVsMin = <<1>>
    /\ frequency = NOT_FOUND
    /\ animationId \in frameRequests

\* C19 as stated: whenever some scanned lag has a nonzero denominator,
\* the lag selected is the smallest of those with the greatest correlation.
C19_FirstMaximumSelected ==
    (acResult # NULL /\ AcLags # {})
      => AcFirstMaximum(BestOf(acBuffer, acSampleRate).bestOffset)

\* C19, amended: the lag selected is the smallest of the lags with the
\* greatest correlation when that correlation is above -1, the value
\* bestCorrelation starts from, and no lag is selected otherwise; a lag with
\* a zero denominator is never selected; a frequency returned is
\* sampleRate / lag for that smallest lag.
C19_FirstMaximumAboveStart ==
    acResult # NULL
      => LET best == BestOf(acBuffer, acSampleRate)
             aboveStart ==
                 \E lag \in AcLags :
                    CorrGreater(Correlation(acBuffer, lag), MINUS_ONE)
         IN /\ best.bestOffset \in AcLags \cup {-1}
            /\ aboveStart => AcFirstMaximum(best.bestOffset)
            /\ ~aboveStart => best.bestOffset = -1
            /\ acResult # NOT_FOUND
                 => \E lag \in AcLags :
                       /\ AcFirstMaximum(lag)
                       /\ acResult[1] * lag = acSampleRate * acResult[2]

\* Two lags share the greatest correlation and the smaller one gives the
\* frequency returned.
C19_Witness ==
    /\ acResult # NULL
    /\ acResult # NOT_FOUND
    /\ \E lag \in AcLags : \E other \in AcLags :
          /\ lag < other
          /\ AcFirstMaximum(lag)
          /\ ~CorrGreater(Correlation(acBuffer, lag),
                          Correlation(acBuffer, other))
          /\ acResult[1] * lag = acSampleRate * acResult[2]

\* C20: the segments lit are among 0..24; the center segment 12 is lit
\* exactly when the note is in tune, and alone; when not in tune at least
\* one segment is lit, all below 12 for negative cents and all above 12 for
\* positive cents; cents of -50 or lower light down to segment 0, cents of
\* 50 or higher up to segment 24, and 0 cents the center.
C20_MeterSegments ==
    updateDisplayArg # NULL
      => /\ segments \subseteq 0..(NUM_SEGMENTS - 1)
         /\ ClampedSegmentIndex(ShownCents) \in 0..(NUM_SEGMENTS - 1)
         /\ 12 \in segments <=> noteEl.inTune
         /\ noteEl.inTune => segments = {12}
         /\ ~noteEl.inTune
              => /\ segments # {}
                 /\ ShownCents < 0 => \A i \in segments : i < 12
                 /\ ShownCents > 0 => \A i \in segments : i > 12
         /\ ShownCents <= -50 => segments = 0..11
         /\ ShownCents >= 50 => segments = 13..24
         /\ ShownCents = 0 => segments = {12}

\* -6 cents under the lock on the A string: the segment next to the
\* center, on the flat side.
C20_Witness ==
    /\ ShownLocked
    /\ lockedStringIndex = 1
    /\ centsValueEl = <<"-", 6>>
    /\ ~noteEl.inTune
    /\ segments = {11}

====
